---- MODULE Spec2Model ----
(***************************************************************************)
(* Roulette-Twitch: the bot's two concurrent activities.                   *)
(*   - the credential loop of Bot::start (src/src/main.rs:98-119);         *)
(*   - the session run loop (mod websocket, ChatWebsocketClient::run),     *)
(*     which calls Bot::handle_event (main.rs:125-170) and Bot::command    *)
(*     (main.rs:172-227) for every notification; the loop itself follows   *)
(*     the design of the session manager (spec.md 4.1, 4.3, 4.4);          *)
(*   - futures::future::try_join of the two (main.rs:121).                 *)
(* Both futures are polled by one task, so an action of the model runs one *)
(* activity from the completion of an .await to its next suspension.       *)
(***************************************************************************)
EXTENDS Integers, Sequences, FiniteSets, TLC

(* ------------------------------ bounds -------------------------------- *)
MaxTicks == 2          \* ticks of the credential loop that are explored
MaxFrames == 3         \* frames the server sends over the whole run
MaxQueue == 2          \* frames buffered on the connection, not yet read
MaxRetries == 0        \* failures the retry budget of run absorbs
MaxLagTicks == 0       \* periods the loop body may overrun the interval by

(* -------------------------- program constants ------------------------- *)
TickPeriod == 30       \* tokio::time::interval(Duration::from_secs(30))
RefreshThreshold == 60 \* token.expires_in() < Duration::from_secs(60)
BanSeconds == 180      \* ban_user(.., Some(180), ..)
DieSides == 6          \* random_range(1..=6); num == 6

Lifetimes == {45, 60, 120}     \* lifetimes the authorization server hands out

None == "none"
NoCred == [access |-> -1, expiresOf |-> -1]
NoEvent == [type |-> None, text |-> <<>>]
Unread == -1
NoWelcome == [at |-> 0, prior |-> None, migrated |-> FALSE]

Max(a, b) == IF a >= b THEN a ELSE b

(* ------------------------------ text ---------------------------------- *)
Prefix == <<"?", "!">>
Roulette == <<"r", "o", "u", "l", "e", "t", "t", "e">>
Texts == { <<"h", "i">>,
           Prefix,
           Prefix \o <<" ">>,
           Prefix \o Roulette,
           Prefix \o <<" ">> \o Roulette \o <<" ">> \o <<"x">>,
           Prefix \o <<"s", "p", "i", "n">> }

IsWhitespace(c) == c \in {" ", "\t", "\n"}

\* str::strip_prefix: Some(rest) as <<rest>>, None as <<>>
StripPrefix(text, prefix) ==
    IF Len(text) >= Len(prefix) /\ SubSeq(text, 1, Len(prefix)) = prefix
    THEN <<SubSeq(text, Len(prefix) + 1, Len(text))>>
    ELSE <<>>

RECURSIVE TakeWord(_)
TakeWord(s) ==
    IF s = <<>> \/ IsWhitespace(Head(s)) THEN <<>>
    ELSE <<Head(s)>> \o TakeWord(Tail(s))

\* str::split_whitespace, collected: the words of s, in order
RECURSIVE SplitWhitespace(_)
SplitWhitespace(s) ==
    IF s = <<>> THEN <<>>
    ELSE IF IsWhitespace(Head(s)) THEN SplitWhitespace(Tail(s))
    ELSE LET w == TakeWord(s)
         IN <<w>> \o SplitWhitespace(SubSeq(s, Len(w) + 1, Len(s)))

(* ------------------------------ events -------------------------------- *)
ChatMessage == "channel.chat.message"
ChatNotification == "channel.chat.notification"
OtherType == "channel.follow"
Subscriptions == {ChatMessage, ChatNotification}
SubOrder == <<ChatMessage, ChatNotification>>

Events == [type : {ChatMessage}, text : Texts]
          \cup [type : {ChatNotification, OtherType}, text : {<<"h", "i">>}]

SessionIds == {"S1", "S2"}


(* ------------------------------ frames -------------------------------- *)
\* The frames of the push channel; a welcome is what the server sends first.
\* keepalive_timeout_seconds values a welcome can announce
KeepaliveTimeouts == {10}

WelcomeFrames ==
    [kind : {"welcome"}, sid : SessionIds, keepalive : KeepaliveTimeouts]
LaterFrames ==
    [kind : {"keepalive", "reconnect"}]
    \cup [kind : {"notification"}, event : Events]
    \cup [kind : {"revocation"}, sub : Subscriptions]

(* ------------------------------ state --------------------------------- *)
VARIABLES
    cred,              \* the UserToken behind the mutex: token and its expiry
    remaining,         \* token.expires_in(), in seconds
    lockOwner,         \* who holds the tokio Mutex: None, "tick" or "session"
    lockWaiter,        \* who is queued on it
    tickPc,            \* "sleep", "lock", "refresh", "validate"
    tickNo,            \* ticks begun so far
    tickRemaining,     \* expires_in() as read by this tick, Unread before
    tickTodo,          \* calls this tick has yet to issue
    tickCalls,         \* calls this tick has issued
    refreshOutcome,    \* None, "pending", "noop", "ok", or the failure
    validateOutcome,   \* None, "pending", "ok", or the failure
    refreshesInFlight, \* refresh exchanges awaiting their response
    wsOut,             \* output of the ws future: "pending", "ok" or an error
    tickOut,           \* output of the refresh_token future
    startResult,       \* what Bot::start returned: "pending" until it does,
                       \* "panic" when a panic unwound through it
    firstError,        \* the error of the activity that failed first
    sessState,         \* SessionState
    sessionId,         \* Session.id
    migrating,         \* a reconnect frame asked for the current reconnect
    subStatus,         \* Subscription.status per configured subscription
    regLog,            \* registration calls issued: <<sub, session id>>
    regSnap,           \* credential snapshot of the registration in flight
    keepalive,         \* keepalive timeout of the session, in seconds
    silence,           \* seconds run has waited since the last frame it read
    connectUrl,        \* the URL the next connection goes to
    lastWelcome,       \* the latest welcome: registrations made before it,
                       \* the session id before it, whether it ends a migration
    retries,           \* failed connection attempts so far
    runPc,             \* "connect", "recv", "snaplock", "register", "handler"
                       \* (in the handler: EventFnPc)
    inbound,           \* ids of the frames on the connection, not yet read
    arrived,           \* frames the server has sent
    connFrames,        \* frames run has read from this connection
    taken,             \* ids of the notification frames run has read
    invoked,           \* ids of the frames the handler was invoked for
    completed,         \* handler invocations that have returned
    hPc,               \* "idle", "lock", "reply", "ban"
    hEvent,            \* event of the current (or last) invocation
    hSeen,             \* the credential the invocation reads behind its guard
    hNum,              \* the number drawn by the roulette command, 0 if none
    hTodo,             \* calls the invocation has yet to issue
    hCalls,            \* calls the invocation has issued: <<call, token used>>
    hPrinted,          \* the invocation printed a chat line
    hResult            \* None while in progress, then "ok", "err" or "panic"

credVars == <<cred, remaining>>
lockVars == <<lockOwner, lockWaiter>>
tickVars == <<tickPc, tickNo, tickRemaining, tickTodo, tickCalls,
              refreshOutcome, validateOutcome, refreshesInFlight>>
joinVars == <<wsOut, tickOut, startResult, firstError>>
sessVars == <<sessState, sessionId, migrating, subStatus, regLog, regSnap,
              lastWelcome, retries>>
watchVars == <<keepalive, silence, connectUrl>>
wireVars == <<inbound, arrived, connFrames>>
histVars == <<taken, invoked, completed>>
hVars == <<hPc, hEvent, hSeen, hNum, hTodo, hCalls, hPrinted, hResult>>
vars == <<credVars, lockVars, tickVars, joinVars, sessVars, watchVars, runPc,
          wireVars, histVars, hVars>>

(* ------------------------- credential (pure) -------------------------- *)
\* A refresh that stores the new token and leaves the old expiry.
WriteCredentialTorn(c, g) == [c EXCEPT !.access = g]

\* UserToken::refresh_token stores the new token and its expiry together.
WriteCredential(c, g) == [access |-> g, expiresOf |-> g]

\* The comparison of main.rs:106 made inclusive.
NeedsRefreshInclusive(rem) == rem <= RefreshThreshold

\* main.rs:106
NeedsRefresh(rem) == rem < RefreshThreshold

\* The loop body with its two calls in the other order.
TickPlanValidateFirst(rem) ==
    IF NeedsRefresh(rem) THEN <<"validate", "refresh">> ELSE <<"validate">>

\* main.rs:106-115: the calls one pass of the loop body makes, in order
TickPlan(rem) ==
    IF NeedsRefresh(rem) THEN <<"refresh", "validate">> ELSE <<"validate">>

(* ---------------------------- try_join -------------------------------- *)
IsErr(o) == o \notin {"pending", "ok"}

\* join in the place of try_join: the output waits for both futures.
JoinBoth(w, t) ==
    IF w = "pending" \/ t = "pending" THEN "pending"
    ELSE IF IsErr(w) THEN w
    ELSE IF IsErr(t) THEN t
    ELSE "ok"

\* A join that ends on an error of the credential loop only.
JoinTickOnly(w, t) ==
    IF IsErr(t) THEN t
    ELSE IF w # "pending" /\ t = "ok" THEN w
    ELSE "pending"

\* futures::future::try_join(ws, refresh_token): the first error, at once;
\* success only when both have succeeded.
TryJoin(w, t) ==
    IF IsErr(w) THEN w
    ELSE IF IsErr(t) THEN t
    ELSE IF w = "ok" /\ t = "ok" THEN "ok"
    ELSE "pending"

Running == startResult = "pending"
TickLive == tickOut = "pending"
WsLive == wsOut = "pending"

\* A mutex that frees the lock and forgets who was queued.
AfterReleaseForgetsWaiter(a) ==
    IF lockOwner = a THEN [owner |-> None, waiter |-> None]
    ELSE IF lockWaiter = a THEN [owner |-> lockOwner, waiter |-> None]
    ELSE [owner |-> lockOwner, waiter |-> lockWaiter]

\* A lock() that never waits.
LockIsFreeAlways == TRUE

\* tokio Mutex::lock completes at once when nobody holds the lock.
LockIsFree == lockOwner = None

\* What is left of the lock once activity a has dropped its guard or its
\* place in the queue (tokio hands the permit to the queued waiter).
AfterRelease(a) ==
    IF lockOwner = a THEN [owner |-> lockWaiter, waiter |-> None]
    ELSE IF lockWaiter = a THEN [owner |-> lockOwner, waiter |-> None]
    ELSE [owner |-> lockOwner, waiter |-> lockWaiter]

Release(a) ==
    /\ lockOwner' = AfterRelease(a).owner
    /\ lockWaiter' = AfterRelease(a).waiter

\* An activity ends with output e (an error, or "ok"): its guard is dropped;
\* when start returns, the sibling future is dropped with its guard as well.
Finish(a, e) ==
    LET w == IF a = "session" THEN e ELSE wsOut
        t == IF a = "tick" THEN e ELSE tickOut
        r == TryJoin(w, t)
    IN /\ wsOut' = w
       /\ tickOut' = t
       /\ startResult' = r
       /\ firstError' = IF firstError = None /\ IsErr(e) THEN e ELSE firstError
       /\ IF r = "pending" THEN Release(a)
          ELSE lockOwner' = None /\ lockWaiter' = None

(* ------------------------------- Init --------------------------------- *)
Init ==
    /\ cred = [access |-> 0, expiresOf |-> 0]
    /\ remaining \in Lifetimes
    /\ lockOwner = None /\ lockWaiter = None
    /\ tickPc = "sleep" /\ tickNo = 0 /\ tickRemaining = Unread
    /\ tickTodo = <<>> /\ tickCalls = <<>>
    /\ refreshOutcome = None /\ validateOutcome = None
    /\ refreshesInFlight = 0
    /\ wsOut = "pending" /\ tickOut = "pending" /\ startResult = "pending"
    /\ firstError = None
    /\ sessState = "Connecting" /\ sessionId = None /\ migrating = FALSE
    /\ subStatus = [s \in Subscriptions |-> "Pending"]
    /\ regLog = <<>> /\ regSnap = NoCred /\ retries = 0
    /\ lastWelcome = NoWelcome
    /\ keepalive = 0 /\ silence = 0 /\ connectUrl = "original"
    /\ runPc = "connect"
    /\ inbound = <<>> /\ arrived = 0 /\ connFrames = 0
    /\ taken = <<>> /\ invoked = <<>> /\ completed = 0
    /\ hPc = "idle" /\ hEvent = NoEvent /\ hSeen = NoCred /\ hNum = 0
    /\ hTodo = <<>> /\ hCalls = <<>> /\ hPrinted = FALSE /\ hResult = None


(* ----------------- credential loop (main.rs:98-119) ------------------- *)
\* main.rs:105-106 once the guard is held: read expires_in (rem), start the
\* calls.
TickEvaluate(rem) ==
    LET plan == TickPlan(rem)
    IN /\ tickRemaining' = rem
       /\ tickPc' = Head(plan)
       /\ tickTodo' = Tail(plan)
       /\ tickCalls' = <<Head(plan)>>
       /\ IF Head(plan) = "refresh"
          THEN /\ refreshOutcome' = "pending"
               /\ refreshesInFlight' = refreshesInFlight + 1
               /\ validateOutcome' = None
          ELSE /\ refreshOutcome' =
                   IF \E i \in 1..Len(plan) : plan[i] = "refresh"
                   THEN None ELSE "noop"
               /\ validateOutcome' = "pending"
               /\ UNCHANGED refreshesInFlight

\* The time interval.tick() takes to complete: nothing the first time, then
\* one period, or more when the loop body overran the interval.
Elapsed(n) ==
    IF n = 0 THEN {0} ELSE {TickPeriod * k : k \in 1..(1 + MaxLagTicks)}

\* The time a queued lock() takes to be granted.
LockWait == {TickPeriod * k : k \in 0..MaxLagTicks}

\* main.rs:104-105: interval.tick() completes, the token having aged
\* meanwhile (expires_in saturates at zero); token.lock() either succeeds at
\* once or queues the loop behind the handler.
TimerFire ==
    /\ Running /\ TickLive
    /\ tickPc = "sleep" /\ tickNo < MaxTicks
    /\ tickNo' = tickNo + 1
    /\ \E e \in Elapsed(tickNo) : remaining' = Max(remaining - e, 0)
    /\ IF LockIsFree
       THEN /\ lockOwner' = "tick"
            /\ UNCHANGED lockWaiter
            /\ TickEvaluate(remaining')
       ELSE /\ lockWaiter' = "tick"
            /\ UNCHANGED lockOwner
            /\ tickPc' = "lock"
            /\ tickRemaining' = Unread
            /\ tickTodo' = <<>> /\ tickCalls' = <<>>
            /\ refreshOutcome' = None /\ validateOutcome' = None
            /\ UNCHANGED refreshesInFlight
    /\ UNCHANGED <<cred, joinVars, sessVars, watchVars, runPc, wireVars,
                   histVars, hVars>>

\* main.rs:105: the queued lock() is granted.
TickLockGranted ==
    /\ Running /\ TickLive
    /\ tickPc = "lock" /\ lockOwner = "tick"
    /\ \E e \in LockWait : remaining' = Max(remaining - e, 0)
    /\ TickEvaluate(remaining')
    /\ UNCHANGED <<cred, lockVars, tickNo, joinVars, sessVars, watchVars, runPc,
                   wireVars, histVars, hVars>>

\* A body that is not in a loop: the future returns Ok(()) after one pass.
TickEndOfBodyReturns ==
    /\ tickPc' = "sleep"
    /\ tickRemaining' = Unread
    /\ tickTodo' = <<>> /\ tickCalls' = <<>>
    /\ refreshOutcome' = None /\ validateOutcome' = None
    /\ Finish("tick", "ok")

\* End of the loop body (main.rs:116): the guard goes out of scope.
TickEndOfBody ==
    /\ tickPc' = "sleep"
    /\ tickRemaining' = Unread
    /\ tickTodo' = <<>> /\ tickCalls' = <<>>
    /\ refreshOutcome' = None /\ validateOutcome' = None
    /\ Release("tick")
    /\ UNCHANGED joinVars

\* main.rs:107-110: the refresh exchange returns.
RefreshReturns ==
    /\ Running /\ TickLive
    /\ tickPc = "refresh"
    /\ refreshesInFlight' = refreshesInFlight - 1
    /\ \E o \in {"ok", "network", "invalid_refresh_token"} :
        IF o = "ok"
        THEN /\ cred' = WriteCredential(cred, cred.access + 1)
             /\ \E l \in Lifetimes : remaining' = l
             /\ IF tickTodo = <<>>
                THEN TickEndOfBody
                ELSE /\ tickPc' = Head(tickTodo)
                     /\ tickTodo' = Tail(tickTodo)
                     /\ tickCalls' = Append(tickCalls, Head(tickTodo))
                     /\ refreshOutcome' = o
                     /\ validateOutcome' = "pending"
                     /\ UNCHANGED <<tickRemaining, lockVars, joinVars>>
        ELSE /\ refreshOutcome' = o
             /\ Finish("tick", "refresh:" \o o)
             /\ UNCHANGED <<cred, remaining, tickPc, tickRemaining, tickTodo,
                            tickCalls, validateOutcome>>
    /\ UNCHANGED <<tickNo, sessVars, watchVars, runPc, wireVars, histVars,
                   hVars>>

\* main.rs:112-115: the validation call returns.
ValidateReturns ==
    /\ Running /\ TickLive
    /\ tickPc = "validate"
    /\ \E o \in {"ok", "network", "revoked"} :
        IF o = "ok"
        THEN IF tickTodo = <<>>
             THEN TickEndOfBody /\ UNCHANGED refreshesInFlight
             ELSE /\ tickPc' = Head(tickTodo)
                  /\ tickTodo' = Tail(tickTodo)
                  /\ tickCalls' = Append(tickCalls, Head(tickTodo))
                  /\ validateOutcome' = o
                  /\ refreshOutcome' = "pending"
                  /\ refreshesInFlight' = refreshesInFlight + 1
                  /\ UNCHANGED <<tickRemaining, lockVars, joinVars>>
        ELSE /\ validateOutcome' = o
             /\ Finish("tick", "validate:" \o o)
             /\ UNCHANGED <<tickPc, tickRemaining, tickTodo, tickCalls,
                            refreshOutcome, refreshesInFlight>>
    /\ UNCHANGED <<credVars, tickNo, sessVars, watchVars, runPc, wireVars,
                   histVars, hVars>>

(* ------------- handle_event and command (main.rs:125-227) ------------- *)
\* The match with its wildcard arm treated as a chat message.
BranchNoWildcard(event) ==
    IF event.type = ChatNotification THEN "notification" ELSE "message"

\* main.rs:131-168: the arm of the match an event takes
Branch(event) ==
    IF event.type = ChatMessage THEN "message"
    ELSE IF event.type = ChatNotification THEN "notification"
    ELSE "ignore"

\* A wheel that fires in every chamber.
CommandPlanAlwaysBan(command, n) ==
    IF command = Roulette THEN <<"reply", "ban">> ELSE <<>>

\* main.rs:183-225: the calls of a command, in order
CommandPlan(command, n) ==
    IF command = Roulette
    THEN IF n = DieSides THEN <<"reply", "ban">> ELSE <<"reply">>
    ELSE <<>>

\* main.rs:131-169: what one invocation does with an event when the wheel
\* would stop at n: whether it prints, whether next().unwrap() panics, and
\* the calls it makes.
HandlerPlan(event, n) ==
    LET stripped == StripPrefix(event.text, Prefix)
        words == IF stripped = <<>> THEN <<>> ELSE SplitWhitespace(stripped[1])
    IN CASE Branch(event) = "message" ->
              [print |-> TRUE,
               panic |-> stripped # <<>> /\ words = <<>>,
               calls |-> IF words = <<>> THEN <<>>
                         ELSE CommandPlan(words[1], n)]
         [] Branch(event) = "notification" ->
              [print |-> TRUE, panic |-> FALSE, calls |-> <<>>]
         [] OTHER ->
              [print |-> FALSE, panic |-> FALSE, calls |-> <<>>]

\* The record of one outbound call of the handler.
Call(name, token) ==
    [call |-> name, token |-> token.access,
     seconds |-> IF name = "ban" THEN BanSeconds ELSE 0]

\* A closure that does not await handle_event: run reads on at once.
EventFnPcDetached == "recv"

\* main.rs:120: the closure handed to run awaits handle_event, so run stays
\* in the invocation until handle_event has returned.
EventFnPc == "handler"

\* What is kept of an invocation once it is over: the kind of its event.
Forget(event) == [event EXCEPT !.text = <<>>]

\* handle_event returns Ok(()) (main.rs:169): the guard is dropped and run
\* goes back to reading frames.
HandlerReturnsOk ==
    /\ hPc' = "idle"
    /\ hResult' = "ok"
    /\ hEvent' = Forget(hEvent)
    /\ hSeen' = NoCred /\ hNum' = 0 /\ hTodo' = <<>> /\ hCalls' = <<>>
    /\ completed' = completed + 1
    /\ runPc' = "recv"
    /\ Release("session")
    /\ UNCHANGED joinVars

\* A handler that notes the error, issues the calls still planned, and
\* only then returns the error.
HandlerFailsAfterRest(kind, e) ==
    /\ hResult' = kind
    /\ Finish("session", e)
    /\ hCalls' = hCalls \o [i \in 1..Len(hTodo) |-> Call(hTodo[i], cred)]
    /\ hTodo' = <<>>
    /\ UNCHANGED <<hPc, hEvent, hSeen, hNum, completed, runPc>>

\* handle_event ends with output e, an error or a panic, which run passes on.
HandlerFails(kind, e) ==
    /\ hResult' = kind
    /\ Finish("session", e)
    /\ UNCHANGED <<hPc, hEvent, hSeen, hNum, hTodo, hCalls, completed, runPc>>

\* main.rs:130-148: the queued lock() is granted; then the match, the parse,
\* and the first call of the command if there is one.
HandlerLockGranted ==
    /\ Running /\ WsLive
    /\ hPc = "lock" /\ lockOwner = "session"
    /\ \E n \in 1..DieSides :
        LET plan == HandlerPlan(hEvent, n)
        IN /\ hPrinted' = plan.print
           /\ IF plan.panic
              THEN HandlerFails("panic", "panic")
              ELSE IF plan.calls = <<>>
              THEN HandlerReturnsOk
              ELSE /\ hPc' = Head(plan.calls)
                   /\ hTodo' = Tail(plan.calls)
                   /\ hCalls' = <<Call(Head(plan.calls), cred)>>
                   /\ hSeen' = cred
                   /\ hNum' = n
                   /\ UNCHANGED <<hEvent, hResult, runPc, lockVars, joinVars,
                                  completed>>
    /\ UNCHANGED <<credVars, tickVars, sessVars, watchVars, wireVars, taken,
                   invoked>>

\* An outbound call of the command returns (main.rs:201, 211, 221).
CallReturns(name) ==
    /\ Running /\ WsLive
    /\ hPc = name
    /\ \E ok \in BOOLEAN :
        IF ok
        THEN IF hTodo = <<>>
             THEN HandlerReturnsOk
             ELSE /\ hPc' = Head(hTodo)
                  /\ hTodo' = Tail(hTodo)
                  /\ hCalls' = Append(hCalls, Call(Head(hTodo), cred))
                  /\ UNCHANGED <<hEvent, hSeen, hNum, hResult, completed,
                                 runPc, lockVars, joinVars>>
        ELSE HandlerFails("err", "session:" \o name)
    /\ UNCHANGED <<credVars, tickVars, sessVars, watchVars, wireVars, taken,
                   invoked, hPrinted>>

ReplyReturns == CallReturns("reply")
BanReturns == CallReturns("ban")


(* --------------- session run loop (ChatWebsocketClient::run) ---------- *)
\* The first configured subscription still Pending, None if there is none.
NextPending(status) ==
    LET idx == {i \in 1..Len(SubOrder) : status[SubOrder[i]] = "Pending"}
    IN IF idx = {} THEN None
       ELSE SubOrder[CHOOSE i \in idx : \A j \in idx : i <= j]

\* A registration call that carries the session id held before the welcome.
IssueRegistrationStaleId(sub) ==
    /\ regSnap' = cred
    /\ regLog' = Append(regLog, <<sub, sessionId>>)
    /\ runPc' = "register"

\* The registration call for sub goes out with a snapshot of the credential.
IssueRegistration(sub) ==
    /\ regSnap' = cred
    /\ regLog' = Append(regLog, <<sub, sessionId'>>)
    /\ runPc' = "register"

\* Register the next Pending subscription, or go back to reading frames.
\* The snapshot is copied under the lock, which is not kept.
RegisterNext(status) ==
    IF NextPending(status) = None
    THEN /\ runPc' = "recv"
         /\ regSnap' = NoCred
         /\ UNCHANGED <<regLog, lockVars>>
    ELSE IF lockOwner \in {None, "session"}
    THEN /\ IssueRegistration(NextPending(status))
         /\ Release("session")
    ELSE /\ runPc' = "snaplock"
         /\ lockWaiter' = "session"
         /\ UNCHANGED <<regLog, regSnap, lockOwner>>

\* A failed attempt or a protocol violation is charged to the retry budget;
\* run gives up when the budget is spent.
ChargeRetry ==
    /\ retries' = retries + 1
    /\ IF retries + 1 > MaxRetries
       THEN /\ sessState' = "Closed"
            /\ Finish("session", "session:retry_budget")
            /\ UNCHANGED runPc
       ELSE /\ sessState' = "Connecting"
            /\ runPc' = "connect"
            /\ UNCHANGED <<lockVars, joinVars>>

\* Connecting / Reconnecting: open the connection.
Connect ==
    /\ Running /\ WsLive
    /\ runPc = "connect"
    /\ \E ok \in BOOLEAN :
        IF ok
        THEN /\ sessState' = "AwaitingWelcome"
             /\ runPc' = "recv"
             /\ UNCHANGED <<retries, lockVars, joinVars>>
        ELSE ChargeRetry
    /\ inbound' = <<>>
    /\ connFrames' = 0
    /\ UNCHANGED <<credVars, tickVars, sessionId, migrating, subStatus, regLog,
                   regSnap, lastWelcome, watchVars, arrived, histVars, hVars>>

\* The server sends a frame. What it holds is decided when run decodes it
\* (nothing observes a frame before that): see FramesAt. Its arrival ends
\* the silence the watchdog measures.
Arrive ==
    /\ Running
    /\ sessState \in {"AwaitingWelcome", "Active"}
    /\ arrived < MaxFrames /\ Len(inbound) < MaxQueue
    /\ inbound' = Append(inbound, arrived + 1)
    /\ arrived' = arrived + 1
    /\ silence' = 0
    /\ UNCHANGED <<credVars, lockVars, tickVars, joinVars, sessVars, keepalive,
                   connectUrl, runPc, connFrames, histVars, hVars>>

\* The session ids a welcome can carry. Ids are opaque and interchangeable,
\* so the first one the program ever sees is called S1.
WelcomeIds == IF sessionId = None THEN {"S1"} ELSE SessionIds

\* The frames the next frame of a connection can be: the server opens with a
\* welcome (or, breaking the protocol, with something else).
FramesAt(n) ==
    IF n = 0
    THEN {f \in WelcomeFrames : f.sid \in WelcomeIds}
         \cup {[kind |-> "keepalive"]}
    ELSE LaterFrames

\* A welcome that lets the subscriptions wait no longer.
FreshOnEveryWelcome(mig, new, old) == TRUE

\* A welcome that opens a session only when there was none before.
FreshOnFirstOnly(mig, new, old) == old = None

\* Step 4 of the session manager: a welcome opens a fresh session when its
\* id differs from the prior one and no migration was signalled.
Fresh(mig, new, old) == ~mig /\ new # old

\* AwaitingWelcome: the first frame must be a welcome.
ReadWelcome ==
    /\ Running /\ WsLive
    /\ runPc = "recv" /\ sessState = "AwaitingWelcome" /\ inbound # <<>>
    /\ inbound' = Tail(inbound)
    /\ connFrames' = connFrames + 1
    /\ \E f \in FramesAt(connFrames) :
          IF f.kind = "welcome"
          THEN LET fresh == Fresh(migrating, f.sid, sessionId)
                   status == IF fresh
                             THEN [s \in Subscriptions |-> "Pending"]
                             ELSE subStatus
               IN /\ sessionId' = f.sid
                  /\ subStatus' = status
                  /\ sessState' = "Active"
                  /\ migrating' = FALSE
                  /\ keepalive' = f.keepalive
                  /\ lastWelcome' = [at |-> Len(regLog), prior |-> sessionId,
                                     migrated |-> migrating]
                  /\ RegisterNext(status)
                  /\ UNCHANGED <<retries, joinVars>>
          ELSE /\ ChargeRetry
               /\ UNCHANGED <<sessionId, subStatus, migrating, regLog, regSnap,
                              lastWelcome, keepalive>>
    /\ silence' = 0
    /\ UNCHANGED <<credVars, tickVars, connectUrl, arrived, histVars, hVars>>

\* The lock queued for by a registration snapshot is granted.
SnapLockGranted ==
    /\ Running /\ WsLive
    /\ runPc = "snaplock" /\ lockOwner = "session"
    /\ sessionId' = sessionId
    /\ IssueRegistration(NextPending(subStatus))
    /\ Release("session")
    /\ UNCHANGED <<credVars, tickVars, joinVars, sessState, migrating,
                   subStatus, lastWelcome, watchVars, retries, wireVars,
                   histVars, hVars>>

\* A registration call returns; its failure is not fatal.
RegisterReturns ==
    /\ Running /\ WsLive
    /\ runPc = "register"
    /\ sessionId' = sessionId
    /\ \E ok \in BOOLEAN :
        LET status == [subStatus EXCEPT ![NextPending(subStatus)] =
                           IF ok THEN "Active" ELSE "Failed"]
        IN /\ subStatus' = status
           /\ RegisterNext(status)
    /\ UNCHANGED <<credVars, tickVars, joinVars, sessState, migrating,
                   lastWelcome, watchVars, retries, wireVars, histVars, hVars>>

\* Active: a keepalive, revocation or reconnect frame is read.
ReadControl ==
    /\ Running /\ WsLive
    /\ runPc = "recv" /\ sessState = "Active" /\ inbound # <<>>
    /\ inbound' = Tail(inbound)
    /\ connFrames' = connFrames + 1
    /\ \E f \in FramesAt(connFrames) :
        /\ f.kind \in {"keepalive", "revocation", "reconnect"}
        /\ CASE f.kind = "keepalive" ->
                 UNCHANGED <<sessState, migrating, subStatus, runPc,
                             connectUrl>>
             [] f.kind = "revocation" ->
                 /\ subStatus' = [subStatus EXCEPT ![f.sub] = "Failed"]
                 /\ UNCHANGED <<sessState, migrating, runPc, connectUrl>>
             [] f.kind = "reconnect" ->
                 /\ sessState' = "Reconnecting"
                 /\ migrating' = TRUE
                 /\ connectUrl' = "migration"
                 /\ runPc' = "connect"
                 /\ UNCHANGED subStatus
    /\ silence' = 0
    /\ UNCHANGED <<credVars, lockVars, tickVars, joinVars, sessionId, regLog,
                   regSnap, lastWelcome, keepalive, retries, arrived, histVars,
                   hVars>>

\* Active: a notification frame is read and the handler is invoked with its
\* event (main.rs:120); handle_event first locks the token (main.rs:130).
Dispatch ==
    /\ Running /\ WsLive
    /\ runPc = "recv" /\ sessState = "Active" /\ inbound # <<>>
    /\ inbound' = Tail(inbound)
    /\ connFrames' = connFrames + 1
    /\ taken' = Append(taken, Head(inbound))
    /\ invoked' = Append(invoked, Head(inbound))
    /\ \E f \in FramesAt(connFrames) :
        /\ f.kind = "notification"
        /\ hEvent' = f.event
    /\ hPc' = "lock"
    /\ runPc' = EventFnPc
    /\ hSeen' = NoCred /\ hNum' = 0 /\ hTodo' = <<>> /\ hCalls' = <<>>
    /\ hPrinted' = FALSE /\ hResult' = None
    /\ IF LockIsFree
       THEN lockOwner' = "session" /\ UNCHANGED lockWaiter
       ELSE lockWaiter' = "session" /\ UNCHANGED lockOwner
    /\ silence' = 0
    /\ UNCHANGED <<credVars, tickVars, joinVars, sessVars, keepalive,
                   connectUrl, arrived, completed>>

\* A watchdog that waits three keepalive periods.
LivenessDeadlineTriple(t) == 3 * t

\* The liveness watchdog allows a silence of twice the keepalive timeout.
LivenessDeadline(t) == 2 * t

\* Active: run waits for the next frame and none comes for another
\* keepalive period. The wait cannot outlast the watchdog's deadline.
Silence ==
    /\ Running /\ WsLive
    /\ runPc = "recv" /\ sessState = "Active" /\ inbound = <<>>
    /\ silence + keepalive <= LivenessDeadline(keepalive)
    /\ silence' = silence + keepalive
    /\ UNCHANGED <<credVars, lockVars, tickVars, joinVars, sessVars, keepalive,
                   connectUrl, runPc, wireVars, histVars, hVars>>

\* The liveness watchdog gives the connection up at its deadline: with no
\* migration URL, the next connection goes to the original one.
LivenessTimeout ==
    /\ Running /\ WsLive
    /\ runPc = "recv" /\ sessState = "Active" /\ inbound = <<>>
    /\ silence >= LivenessDeadline(keepalive)
    /\ sessState' = "Reconnecting"
    /\ migrating' = FALSE
    /\ connectUrl' = "original"
    /\ silence' = 0
    /\ runPc' = "connect"
    /\ UNCHANGED <<credVars, lockVars, tickVars, joinVars, sessionId,
                   subStatus, regLog, regSnap, lastWelcome, keepalive, retries,
                   wireVars, histVars, hVars>>

(* ------------------------------- Next --------------------------------- *)
Next ==
    \/ TimerFire
    \/ TickLockGranted
    \/ RefreshReturns
    \/ ValidateReturns
    \/ Connect
    \/ Arrive
    \/ ReadWelcome
    \/ SnapLockGranted
    \/ RegisterReturns
    \/ ReadControl
    \/ Dispatch
    \/ HandlerLockGranted
    \/ ReplyReturns
    \/ BanReturns
    \/ Silence
    \/ LivenessTimeout

Spec == Init /\ [][Next]_vars

\* The steps that take a granted lock or end a call that is in flight.
LockProgress ==
    \/ TickLockGranted
    \/ HandlerLockGranted
    \/ SnapLockGranted
    \/ RefreshReturns
    \/ ValidateReturns
    \/ ReplyReturns
    \/ BanReturns
    \/ RegisterReturns

\* The server sends a frame, the last one of the run excepted.
ArriveEarly == Arrive /\ arrived + 1 < MaxFrames

\* The steps of the program in runs that are one frame shorter.
FairNext ==
    \/ TimerFire
    \/ TickLockGranted
    \/ RefreshReturns
    \/ ValidateReturns
    \/ Connect
    \/ ArriveEarly
    \/ ReadWelcome
    \/ SnapLockGranted
    \/ RegisterReturns
    \/ ReadControl
    \/ Dispatch
    \/ HandlerLockGranted
    \/ ReplyReturns
    \/ BanReturns
    \/ Silence
    \/ LivenessTimeout

\* The same program under the assumptions of a fair scheduler and of calls
\* that return: a future that can make a step is polled (the tokio runtime
\* wakes the task a lock was handed to), and every outbound call returns.
\* Every wait for the lock involves one tick and one frame after the
\* welcome, so these runs are explored with one frame fewer than Spec.
FairSpec == Init /\ [][FairNext]_vars /\ WF_vars(LockProgress)


(* ============================== claims ================================ *)
Count(x, seq) == Cardinality({i \in 1..Len(seq) : seq[i] = x})

TickCallPending == Running /\ TickLive /\ tickPc \in {"refresh", "validate"}
HandlerCallPending == Running /\ WsLive /\ hPc \in {"reply", "ban"}

\* C1: while a refresh, validation, reply or ban call is in flight, nobody
\* holds the credential lock.
C1_NoLockAcrossCalls ==
    (TickCallPending \/ HandlerCallPending) => lockOwner = None

\* C2: a tick makes a refresh call if and only if the remaining lifetime it
\* reads is strictly below 60 seconds, and then makes exactly one.
C2_RefreshIffBelowSixty ==
    tickRemaining # Unread =>
        Count("refresh", tickCalls) = (IF tickRemaining < 60 THEN 1 ELSE 0)

C2_Witness ==
    /\ tickRemaining = 45
    /\ tickCalls = <<"refresh", "validate">>
    /\ refreshOutcome = "ok"

\* C3: a refresh call that fails on the network does not end the credential
\* loop nor the process.
C3_FailedRefreshIsTransient ==
    refreshOutcome = "network" => (TickLive /\ Running)

\* C4: a validation call that fails for another reason than revocation does
\* not end the credential loop nor the session loop.
C4_FailedValidationIsTransient ==
    validateOutcome = "network" => (TickLive /\ WsLive /\ Running)


\* C5: once an activity has failed, start has returned that first error and
\* neither activity takes another step.
C5_FirstErrorStopsBoth ==
    /\ [](firstError # None => startResult = firstError)
    /\ [][firstError # None => UNCHANGED vars]_vars

C5_Witness ==
    /\ startResult = "refresh:invalid_refresh_token"
    /\ firstError = "refresh:invalid_refresh_token"
    /\ runPc = EventFnPc /\ hPc = "lock"

SessionRuns == Running /\ WsLive
TickRuns == Running /\ TickLive

C7_ValidationFollowsRefresh ==
    /\ [](Count("validate", tickCalls) <= 1)
    /\ [](Count("validate", tickCalls) = 1 =>
              refreshOutcome \in {"noop", "ok"} /\ refreshesInFlight = 0)
    /\ [](tickRemaining # Unread /\ refreshOutcome \in {"noop", "ok"} =>
              Count("validate", tickCalls) = 1)
    /\ [][refreshOutcome = "pending" /\ cred' # cred =>
              /\ tickPc' = "validate"
              /\ tickCalls' = Append(tickCalls, "validate")]_vars

C7_Witness ==
    /\ tickPc = "validate" /\ validateOutcome = "pending"
    /\ refreshOutcome = "ok" /\ tickCalls = <<"refresh", "validate">>

Whole(c) == c.access = c.expiresOf

\* C8: at most one refresh is in flight, and what a reader reads of the
\* credential is a whole pair, old or new.
C8_CredentialConsistency ==
    /\ refreshesInFlight <= 1
    /\ Whole(hSeen) /\ hSeen.access \in -1..cred.access
    /\ Whole(regSnap) /\ regSnap.access \in -1..cred.access
    /\ \A i \in 1..Len(hCalls) : hCalls[i].token = hSeen.access

C8_Witness ==
    /\ hSeen = [access |-> 1, expiresOf |-> 1]
    /\ hPc = "reply"
    /\ regSnap = NoCred /\ Len(regLog) = 2

StrictlyIncreasing(seq) ==
    \A i, j \in 1..Len(seq) : i < j => seq[i] < seq[j]

\* C9: the handler is invoked once for every notification frame read, in
\* the order of arrival, and one invocation at a time.
C9_HandlerOrdering ==
    /\ invoked = taken
    /\ StrictlyIncreasing(invoked)
    /\ Len(invoked) - completed \in {0, 1}
    /\ Len(invoked) - completed = 1 <=> hResult # "ok"  /\ invoked # <<>>

C9_Witness ==
    /\ invoked = <<2, 3>> /\ completed = 1 /\ hPc = "reply"

Ignored(event) == event.type \notin {None, ChatMessage, ChatNotification}

\* C10: an event of another category is ignored: the handler prints
\* nothing, makes no call, returns success, and changes nothing.
C10_OtherEventsIgnored ==
    /\ [](Ignored(hEvent) =>
              /\ hCalls = <<>> /\ ~hPrinted
              /\ hPc \in {"lock", "idle"}
              /\ hResult = (IF hPc = "lock" THEN None ELSE "ok")
              /\ startResult \notin {"panic", "session:reply", "session:ban"})
    /\ [][Ignored(hEvent) /\ hPc = "lock" /\ hPc' # hPc =>
              /\ hResult' = "ok" /\ completed' = completed + 1
              /\ UNCHANGED <<credVars, tickVars, joinVars, sessVars, watchVars,
                             wireVars>>]_vars

C10_Witness ==
    /\ Ignored(hEvent) /\ hResult = "ok" /\ hPc = "idle"
    /\ Running /\ runPc = "recv"

\* Registration calls issued since the latest welcome.
SinceWelcome == SubSeq(regLog, lastWelcome.at + 1, Len(regLog))

RegistrationsOf(sub, log) ==
    Cardinality({i \in 1..Len(log) : log[i][1] = sub})

\* The latest welcome assigned a session id the session did not have, and
\* not as the end of a migration.
OpensSession ==
    /\ sessionId # None
    /\ ~lastWelcome.migrated
    /\ lastWelcome.prior # sessionId

Registering == runPc \in {"snaplock", "register"}

\* C11: after a welcome that assigns session id S, one registration call is
\* issued for each configured subscription, every call carries S, and no
\* call is issued while no session id is assigned.
C11_WelcomeThenSubscribe ==
    /\ sessionId = None => regLog = <<>>
    /\ \A i \in 1..Len(regLog) : regLog[i][2] \in SessionIds
    /\ \A i \in 1..Len(SinceWelcome) : SinceWelcome[i][2] = sessionId
    /\ OpensSession =>
           \A sub \in Subscriptions :
               /\ RegistrationsOf(sub, SinceWelcome) <= 1
               /\ ~Registering => RegistrationsOf(sub, SinceWelcome) = 1

C11_Witness ==
    /\ OpensSession /\ lastWelcome.prior = None /\ sessionId = "S1"
    /\ runPc = "recv" /\ sessState = "Active"
    /\ SinceWelcome = <<<<ChatMessage, "S1">>, <<ChatNotification, "S1">>>>

\* The latest welcome ended a migration and carried the id the session had.
MigratedSameId ==
    /\ lastWelcome.migrated
    /\ lastWelcome.prior = sessionId

\* C12: a welcome that ends a migration with the same session id causes no
\* registration call, and a subscription that was registered before is
\* registered again only after a welcome that came later and carried a
\* session id different from the one held until then.
C12_NoDoubleSubscribeOnMigration ==
    /\ MigratedSameId => SinceWelcome = <<>>
    /\ \A j \in (lastWelcome.at + 1)..Len(regLog) :
           \A i \in 1..(j - 1) :
               regLog[i][1] = regLog[j][1] =>
                   /\ lastWelcome.prior # sessionId
                   /\ i <= lastWelcome.at

C12_Witness ==
    /\ MigratedSameId /\ sessState = "Active" /\ runPc = "recv"
    /\ regLog = <<<<ChatMessage, "S1">>, <<ChatNotification, "S1">>>>
    /\ connFrames > 0

\* The latest welcome followed a reconnect that no reconnect frame had
\* announced, and carried another session id than the one held before.
FreshAfterTimeout ==
    /\ lastWelcome.prior \notin {None, sessionId}
    /\ ~lastWelcome.migrated

\* C13: after a liveness reconnect whose welcome carries a different session
\* id, every configured subscription is registered again with the new id:
\* the calls go out in order, a subscription not yet registered again is
\* Pending, and none is missing when registration is over.
C13_FreshSessionResubscribes ==
    FreshAfterTimeout =>
        /\ Len(SinceWelcome) <= Len(SubOrder)
        /\ \A i \in 1..Len(SinceWelcome) :
               SinceWelcome[i] = <<SubOrder[i], sessionId>>
        /\ \A i \in (Len(SinceWelcome) + 1)..Len(SubOrder) :
               subStatus[SubOrder[i]] = "Pending"
        /\ ~Registering => Len(SinceWelcome) = Len(SubOrder)

C13_Witness ==
    /\ FreshAfterTimeout /\ sessState = "Active" /\ runPc = "recv"
    /\ lastWelcome.prior = "S1" /\ lastWelcome.at = 2
    /\ SinceWelcome = <<<<ChatMessage, "S2">>, <<ChatNotification, "S2">>>>

\* C14: an Active session is never silent for more than twice its keepalive
\* timeout; every frame that arrives starts the wait again; and a reconnect
\* that no reconnect frame announced starts at that deadline and goes to
\* the original connect URL.
C14_KeepaliveLiveness ==
    /\ [](sessState = "Active" => silence <= 2 * keepalive)
    /\ [][arrived' # arrived \/ connFrames' = connFrames + 1 =>
              silence' = 0]_vars
    /\ [][sessState = "Active" /\ sessState' = "Reconnecting" /\ ~migrating' =>
              /\ silence = 2 * keepalive
              /\ connectUrl' = "original"]_vars

C14_Witness ==
    /\ sessState = "Reconnecting" /\ runPc = "connect" /\ ~migrating
    /\ lastWelcome.migrated /\ connectUrl = "original"
    /\ connFrames = 1 /\ keepalive = 10

\* C15: for every chat-message text the handler returns success or an error
\* and never panics, the bare prefix and the prefix followed by whitespace
\* included.
C15_NoPanicOnAnyText ==
    /\ hResult # "panic"
    /\ startResult # "panic"

\* The chat texts whose first word after the prefix is the roulette command.
RouletteTexts ==
    { <<"?", "!", "r", "o", "u", "l", "e", "t", "t", "e">>,
      <<"?", "!", " ", "r", "o", "u", "l", "e", "t", "t", "e", " ", "x">> }

\* The outbound calls the claim expects for an event and a draw n.
ExpectedCalls(event, n) ==
    IF event.type = ChatMessage /\ event.text \in RouletteTexts
    THEN IF n = 6 THEN <<"reply", "ban">> ELSE <<"reply">>
    ELSE <<>>

CallNames(calls) == [i \in 1..Len(calls) |-> calls[i].call]

IsPrefixOf(a, b) == Len(a) <= Len(b) /\ a = SubSeq(b, 1, Len(a))

\* C16: the outbound calls of an invocation are determined by the message
\* and the draw n: none unless the first word after "?!" is roulette, one
\* reply then one 180-second ban when n = 6, one reply and no ban when n is
\* 1..5; a ban never goes out without the reply before it.
C16_CallsDeterminedByDraw ==
    /\ [](/\ hPc = "lock" => hCalls = <<>>
          /\ hPc \in {"reply", "ban"} =>
                 /\ hNum \in 1..6
                 /\ hCalls # <<>>
                 /\ hCalls[Len(hCalls)].call = hPc
          /\ IsPrefixOf(CallNames(hCalls), ExpectedCalls(hEvent, hNum))
          /\ \A i \in 1..Len(hCalls) :
                 /\ hCalls[i].seconds =
                        (IF hCalls[i].call = "ban" THEN 180 ELSE 0)
                 /\ hCalls[i].call = "ban" =>
                        i > 1 /\ hCalls[i - 1].call = "reply")
    /\ [][hResult # "ok" /\ hResult' = "ok" =>
              \E n \in 1..6 :
                  /\ hNum \in {0, n}
                  /\ CallNames(hCalls) = ExpectedCalls(hEvent, n)]_vars

C16_Witness ==
    /\ hPc = "ban" /\ hNum = 6 /\ hEvent.text \in RouletteTexts
    /\ CallNames(hCalls) = <<"reply", "ban">> /\ hCalls[2].seconds = 180

\* C17: when the reply call fails, no ban call is issued for that event and
\* the handler returns that error; the handler's lock is released on this
\* path as on every other path by which it returns.
C17_ReplyFailureStopsCommand ==
    /\ [](hResult = "err" =>
              /\ wsOut = "session:" \o hPc
              /\ startResult = wsOut
              /\ hCalls[Len(hCalls)].call = hPc)
    /\ [](wsOut = "session:reply" =>
              /\ hResult = "err"
              /\ CallNames(hCalls) = <<"reply">>)
    /\ [](hResult # None => lockOwner # "session" \/ runPc = "snaplock")
    /\ [](hResult # None => lockWaiter # "session" \/ runPc = "snaplock")
    /\ [][hPc = "reply" /\ hResult = None /\ hResult' = "err" =>
              /\ lockOwner = "session"
              /\ lockOwner' = None
              /\ hCalls' = hCalls]_vars

C17_Witness ==
    /\ hResult = "err" /\ hPc = "reply" /\ hNum = 6
    /\ wsOut = "session:reply" /\ lockOwner = None
    /\ CallNames(hCalls) = <<"reply">>

\* An activity has asked for the lock and does not have it.
TickWaits == Running /\ tickPc = "lock" /\ lockOwner # "tick"
SessionWaits ==
    /\ Running
    /\ hPc = "lock" \/ runPc = "snaplock"
    /\ lockOwner # "session"

\* C18: with calls that return and a fair scheduler, a tick or a handler
\* that waits for the lock gets it (unless start has returned meanwhile);
\* one who waits is queued behind a holder that is not waiting itself, so
\* the two never wait for each other.
C18_NoDeadlockNoStarvation ==
    /\ [](~(TickWaits /\ SessionWaits))
    /\ [](TickWaits => lockWaiter = "tick" /\ lockOwner = "session")
    /\ [](SessionWaits => lockWaiter = "session" /\ lockOwner = "tick")
    /\ TickWaits ~> (lockOwner = "tick" \/ ~Running)
    /\ SessionWaits ~> (lockOwner = "session" \/ ~Running)

C18_Witness ==
    /\ TickWaits /\ hPc = "ban" /\ lockOwner = "session"

\* C19: all outbound calls of one handler invocation carry the same
\* credential: while a reply or ban call of the handler is in flight the
\* credential is not written and no refresh or validation is in flight.
C19_OneCredentialPerInvocation ==
    /\ [](\A i, j \in 1..Len(hCalls) : hCalls[i].token = hCalls[j].token)
    /\ [](HandlerCallPending =>
              /\ tickPc \in {"sleep", "lock"}
              /\ refreshesInFlight = 0
              /\ hCalls[Len(hCalls)].token = cred.access)
    /\ [][HandlerCallPending => cred' = cred]_vars

C19_Witness ==
    /\ hPc = "ban" /\ Len(hCalls) = 2
    /\ hCalls[1].token = hCalls[2].token
    /\ hCalls[1].token # 0
    /\ TickWaits /\ remaining < 60

\* C20: start never returns success. The tick future never ends with Ok,
\* its loop goes on after every pass, and when start has returned it
\* has returned the error one of the two futures ended with.
C20_StartNeverSucceeds ==
    /\ startResult # "ok"
    /\ tickOut # "ok"
    /\ tickOut = "pending" /\ tickNo > 0 /\ Running =>
           tickPc \in {"sleep", "lock", "refresh", "validate"}
    /\ startResult \notin {"pending", "panic"} =>
           /\ IsErr(startResult)
           /\ startResult \in {wsOut, tickOut}
    /\ firstError = None => startResult = "pending"

C20_Witness ==
    /\ tickNo = MaxTicks /\ tickPc = "sleep" /\ completed > 0
    /\ startResult = "pending" /\ firstError = None

====
